---- MODULE Spec2Model ----
(***************************************************************************)
(* A model of aucommon/auprobe.py: the AudioProber session object, its     *)
(* lazily cached properties, the protocol selection pass                   *)
(* (_get_audio_tracks), the best-track choice (_get_best_track) and the    *)
(* analysis invocation (_get_volume_and_loudness).                         *)
(*                                                                         *)
(* Conventions.                                                            *)
(*  - Python's None is the empty tuple <<>> and a present value v is the   *)
(*    one-element tuple <<v>> (None / Some), so that an empty dict or an   *)
(*    empty string stays different from None.                              *)
(*  - A str is a tuple of one-character strings; a dict is the tuple of    *)
(*    its items in insertion order.                                        *)
(*  - Times are whole seconds.  An average is kept as the exact fraction   *)
(*    [num, den] the code's sum(...) / len(...) denotes.                   *)
(*  - A track's score is kept in tenths (the codec weight 1.2 is 12).      *)
(***************************************************************************)
EXTENDS Integers, Sequences, FiniteSets, TLC

----------------------------------------------------------------------------
(* Bounds of the model *)

\* repeat_times is drawn from 1..MaxRepeat
MaxRepeat == 2
\* retry_times is drawn from 1..MaxRetry
MaxRetry == 2
\* number of property reads made on one AudioProber object
MaxQueries == 2
\* number of elementary streams the probed source carries
MaxStreams == 2
\* number of lines of an analysis log made of arbitrary lines
MaxLines == 3

----------------------------------------------------------------------------
(* Module constants, auprobe.py lines 15-27 *)

NONEXIST == -1
CHANNEL_ORI == -1
CHANNEL_MERGED == -2
TIME_PUNISHMENT == 100
LOUDNESS_MIN == -16
LOUDNESS_MAX == -12
LOUDNESS_TAR == -14

\* WEIGHT_OF_CODEC.get(codec, WEIGHT_OF_CODEC['default']), in tenths
WEIGHT_OF_CODEC(codec) ==
    CASE codec = "aac" -> 12
      [] codec = "vorbis" -> 12
      [] OTHER -> 10

----------------------------------------------------------------------------
(* Python values *)

None == <<>>
Some(v) == <<v>>
Val(opt) == opt[1]

\* dict.get(key, default) on an optional field
Get(opt, default) == IF opt = None THEN default ELSE Val(opt)

\* the strings the code names
s_file == <<"f", "i", "l", "e">>
s_rtmp == <<"r", "t", "m", "p">>
s_rtmpt == <<"r", "t", "m", "p", "t">>
s_rtsp == <<"r", "t", "s", "p">>
s_rtspt == <<"r", "t", "s", "p", "t">>
s_http == <<"h", "t", "t", "p">>
s_mms == <<"m", "m", "s">>
s_mmsh == <<"m", "m", "s", "h">>
s_mmst == <<"m", "m", "s", "t">>
\* schemes the rule table does not name
s_https == <<"h", "t", "t", "p", "s">>
s_ftp == <<"f", "t", "p">>
s_rtmpts == <<"r", "t", "m", "p", "t", "s">>
s_empty == <<>>

\* str.replace(old, new): every non-overlapping occurrence, left to right
RECURSIVE StrReplace(_, _, _)
StrReplace(s, old, new) ==
    IF Len(s) < Len(old) THEN s
    ELSE IF SubSeq(s, 1, Len(old)) = old
         THEN new \o StrReplace(SubSeq(s, Len(old) + 1, Len(s)), old, new)
         ELSE <<Head(s)>> \o StrReplace(Tail(s), old, new)

\* sum(list)
RECURSIVE Sum(_)
Sum(s) == IF s = <<>> THEN 0 ELSE Head(s) + Sum(Tail(s))

\* a < b on exact fractions with positive denominators
FracLess(a, b) == a.num * b.den < b.num * a.den
FracOfInt(n) == [num |-> n, den |-> 1]

\* a min that returns the last of several minimal items
PyMinIndexLast(keys) ==
    CHOOSE i \in 1..Len(keys) :
        /\ \A j \in 1..Len(keys) : ~FracLess(keys[j], keys[i])
        /\ \A j \in (i + 1)..Len(keys) : FracLess(keys[i], keys[j])

\* min(seq, key=...) / max(seq, key=...): the first extremal item in order
PyMinIndex(keys) ==
    CHOOSE i \in 1..Len(keys) :
        /\ \A j \in 1..Len(keys) : ~FracLess(keys[j], keys[i])
        /\ \A j \in 1..(i - 1) : FracLess(keys[i], keys[j])
PyMaxIndex(keys) ==
    CHOOSE i \in 1..Len(keys) :
        /\ \A j \in 1..Len(keys) : keys[j] <= keys[i]
        /\ \A j \in 1..(i - 1) : keys[j] < keys[i]

\* d[key] = item on a dict kept as the tuple of its items in insertion order:
\* an existing key keeps its place, a new key goes last
DictPut(d, item) ==
    IF \E k \in 1..Len(d) : d[k].index = item.index
    THEN [k \in 1..Len(d) |-> IF d[k].index = item.index THEN item ELSE d[k]]
    ELSE Append(d, item)

\* bool(x) of an optional dict or str: None and the empty value are false
Truthy(opt) == opt # None /\ Val(opt) # <<>>

----------------------------------------------------------------------------
(* The AudioProber object *)

\* AudioProber.__init__: local is ('://' not in url) for a path that exists,
\* scheme is the text before '://' of any other url
AudioProber(local, scheme, repeat_times, timeout, retry_times, min_len, max_len, force_proto) ==
    [ local |-> local,
      ori_proto |-> IF local THEN s_file ELSE scheme,
      repeat_times |-> IF local THEN 1 ELSE repeat_times,
      timeout |-> IF local THEN None ELSE timeout,
      retry_times |-> IF local THEN 1 ELSE retry_times,
      min_len |-> min_len,
      max_len |-> max_len,
      force_proto |-> force_proto,
      proto |-> None,
      tracks |-> None,
      con_time |-> None,
      best_track_index |-> None,
      tested_duration |-> None,
      volume |-> None,
      loudness |-> None ]

\* AudioProber.possible_protocols
possible_protocols(o) ==
    LET proto == StrReplace(StrReplace(o.ori_proto, s_rtspt, s_rtsp),
                            s_rtmpt, s_rtmp)
    IN  IF o.force_proto THEN <<proto>>
        ELSE IF proto = s_file THEN <<s_file>>
        ELSE IF proto = s_rtmp THEN <<s_rtmp>>
        ELSE IF proto = s_http THEN <<s_http, s_mmsh>>
        ELSE IF proto \in {s_mms, s_mmsh, s_mmst, s_rtsp} THEN <<s_rtsp, s_mmsh>>
        ELSE <<>>

----------------------------------------------------------------------------
(* Probe output and its parsing, _get_audio_tracks lines 457-480 *)

\* what check_output returned: empty bytes, text that is no JSON, or a JSON
\* document.  A document is [streams, format] with streams None when the
\* key is missing and format None when the key is missing.
EmptyBytes == [kind |-> "empty"]
Garbage == [kind |-> "garbage"]
Json(doc) == [kind |-> "json", doc |-> doc]

\* the track built from one audio stream, lines 462-477
TrackOf(i, format) ==
    [ codec |-> Get(i.codec_name, ""),
      bit_rate |-> Get(i.bit_rate, NONEXIST),
      channels |-> Get(i.channels, NONEXIST),
      duration |-> Get(i.duration, Get(Val(format).duration, NONEXIST)),
      index |-> Val(i.index) ]

\* the loop of lines 460-478 over data['streams']
RECURSIVE TracksOfStreams(_, _, _)
TracksOfStreams(streams, format, acc) ==
    IF streams = <<>> THEN acc
    ELSE LET i == Head(streams)
         IN  IF i.codec_type = "audio"
             THEN TracksOfStreams(Tail(streams), format,
                                  DictPut(acc, TrackOf(i, format)))
             ELSE TracksOfStreams(Tail(streams), format, acc)

\* lines 457-480: [exc, tracks]; exc is the exception that leaves
\* _get_audio_tracks, tracks is tracks_for_current_proto
ParseProbe(json_data) ==
    IF json_data = None \/ Val(json_data).kind = "empty"
    THEN [exc |-> None, tracks |-> None]
    ELSE IF Val(json_data).kind = "garbage"
    THEN [exc |-> Some("ValueError"), tracks |-> None]
    ELSE LET data == Val(json_data).doc
         IN  IF data.streams = None
             THEN [exc |-> Some("KeyError"), tracks |-> None]
             ELSE IF \E k \in 1..Len(Val(data.streams)) :
                        /\ Val(data.streams)[k].codec_type = "audio"
                        /\ \/ data.format = None
                           \/ Val(data.streams)[k].index = None
             THEN [exc |-> Some("KeyError"), tracks |-> None]
             ELSE [exc |-> None,
                   tracks |-> Some(TracksOfStreams(Val(data.streams),
                                                   data.format, <<>>))]

----------------------------------------------------------------------------
(* _get_audio_tracks, the end of the pass: lines 482-496 *)

\* lines 482-487: the entry of one candidate
StreamEntry(proto, probing_time, tracks_for_current_proto) ==
    [ proto |-> proto,
      con_time |-> [num |-> Sum(probing_time), den |-> Len(probing_time)],
      tracks |-> tracks_for_current_proto ]

\* a filter that keeps the candidates without a track map too
ValidTracksAll(streams) == streams

\* line 489
RECURSIVE ValidTracks(_)
ValidTracks(streams) ==
    IF streams = <<>> THEN <<>>
    ELSE IF Head(streams).tracks # None
         THEN <<Head(streams)>> \o ValidTracks(Tail(streams))
         ELSE ValidTracks(Tail(streams))

\* lines 491-492
SelectedTrackInfo(valid_tracks) ==
    valid_tracks[PyMinIndex([k \in 1..Len(valid_tracks) |->
                                valid_tracks[k].con_time])]

\* lines 489-496: the object after the pass
RecordSelection(o, streams) ==
    LET valid_tracks == ValidTracks(streams)
        info == SelectedTrackInfo(valid_tracks)
    IN  IF valid_tracks # <<>>
        THEN [o EXCEPT !.con_time = Some(info.con_time),
                       !.proto = Some(info.proto),
                       !.tracks = info.tracks]
        ELSE o

\* what _get_audio_tracks returns
PassResult(o, streams) ==
    IF ValidTracks(streams) # <<>> THEN RecordSelection(o, streams).tracks
    ELSE None

----------------------------------------------------------------------------
(* _get_best_track, lines 507-526 *)

\* lines 508-511
RECURSIVE LongestDuration(_, _)
LongestDuration(tracks, max_duration) ==
    IF tracks = <<>> THEN max_duration
    ELSE IF Head(tracks).duration > max_duration
         THEN LongestDuration(Tail(tracks), Head(tracks).duration)
         ELSE LongestDuration(Tail(tracks), max_duration)

\* lines 514-521, in tenths
value(track, max_duration) ==
    IF max_duration - track.duration < 1 THEN -10
    ELSE track.bit_rate * WEIGHT_OF_CODEC(track.codec)

\* line 523 on a non-empty track map
BestOf(tracks) ==
    LET max_duration == LongestDuration(tracks, -1)
    IN  tracks[PyMaxIndex([k \in 1..Len(tracks) |->
                              value(tracks[k], max_duration)])]

\* d[index] and (index in d) on a track map
HasTrack(tracks, index) == \E k \in 1..Len(tracks) : tracks[k].index = index
TrackAt(tracks, index) ==
    tracks[CHOOSE k \in 1..Len(tracks) : tracks[k].index = index]

----------------------------------------------------------------------------
(* _get_volume_and_loudness: the module table, the parser of the analysis  *)
(* log and the two maps (lines 275-323, 357-397).  Volumes and loudness    *)
(* are kept in hundredths of a dB / LUFS.                                   *)

\* what an operation gives: a value, or the exception it raises
Ok(v) == [exc |-> None, val |-> v]
Exc(e) == [exc |-> Some(e), val |-> None]

\* d[k] = v on a dict kept as a function of its keys
DictSet(d, k, v) == [x \in DOMAIN d \cup {k} |-> IF x = k THEN v ELSE d[x]]

\* the entries of module_data, lines 279-288
VolumedetectModule(channel) ==
    [ name |-> "volumedetect", channel |-> channel, volume_mean |-> None,
      volume_max |-> None, loudness |-> None ]
Ebur128Module(channel) ==
    [ name |-> "ebur128", channel |-> channel, volume_mean |-> None,
      volume_max |-> None, loudness |-> None ]

\* the loop of lines 290-305 from channel i on: pan, volumedetect and
\* ebur128 are three modules
RECURSIVE ChannelModules(_, _, _)
ChannelModules(i, channels, module_data) ==
    IF i >= channels THEN module_data
    ELSE ChannelModules(i + 1, channels,
             DictSet(DictSet(module_data, 1 + 3 * i + 2, VolumedetectModule(i)),
                     1 + 3 * i + 3, Ebur128Module(i)))

\* a table that puts the merged channel's modules right after the last
\* channel's pan module
ModuleDataMergedEarly(channels) ==
    LET base == DictSet(DictSet(<<>>, 0, VolumedetectModule(CHANNEL_ORI)),
                        1, Ebur128Module(CHANNEL_ORI))
        each == ChannelModules(0, channels, base)
    IN  IF channels = 2
        THEN DictSet(DictSet(each, 1 + 3 * (channels - 1) + 2,
                             VolumedetectModule(CHANNEL_MERGED)),
                     1 + 3 * (channels - 1) + 3, Ebur128Module(CHANNEL_MERGED))
        ELSE each

\* module_data as built by lines 279-323 for a track of that many channels
ModuleData(channels) ==
    LET base == DictSet(DictSet(<<>>, 0, VolumedetectModule(CHANNEL_ORI)),
                        1, Ebur128Module(CHANNEL_ORI))
        each == ChannelModules(0, channels, base)
    IN  IF channels = 2
        THEN DictSet(DictSet(each, 1 + 3 * channels + 2,
                             VolumedetectModule(CHANNEL_MERGED)),
                     1 + 3 * channels + 3, Ebur128Module(CHANNEL_MERGED))
        ELSE each

\* One line of the log, by what the parser tests of it: tag is what the
\* line starts with ("ebur128" for '[Parsed_ebur128_', "volumedetect" for
\* '[Parsed_volumedetect_', "other" for any other '[', "none" for a line
\* that does not start with '['); index is int(line.split()[0].split('_')[-1]);
\* summary, mean_volume and max_volume say whether the word is in the line;
\* integrated says whether it starts with 'I:' and ends with 'LUFS'; value
\* is float(line.split()[-2]).
Line(tag, index, summary, mean_volume, max_volume, integrated, number) ==
    [ tag |-> tag, index |-> index, summary |-> summary,
      mean_volume |-> mean_volume, max_volume |-> max_volume,
      integrated |-> integrated, value |-> number ]
SummaryLine(index) == Line("ebur128", index, TRUE, FALSE, FALSE, FALSE, 0)
IntegratedLine(number) == Line("none", 0, FALSE, FALSE, FALSE, TRUE, number)
MeanVolumeLine(index, number) ==
    Line("volumedetect", index, FALSE, TRUE, FALSE, FALSE, number)
MaxVolumeLine(index, number) ==
    Line("volumedetect", index, FALSE, FALSE, TRUE, FALSE, number)
\* '  Integrated loudness:' and '[Parsed_volumedetect_0 @ ..] n_samples: ..'
PlainLine == Line("none", 0, FALSE, FALSE, FALSE, FALSE, 0)
TaggedLine(tag, index) == Line(tag, index, FALSE, FALSE, FALSE, FALSE, 0)

\* the parser's locals before the first line, lines 357-358
ParserStart(module_data) ==
    [ module_data |-> module_data, in_ebur128_summary_flag |-> FALSE,
      current_ebur128_module_index |-> None, exc |-> None ]

\* a loop body that takes an 'I: .. LUFS' line whether a summary is open
\* or not, for the module of the latest summary
ParseLineAnyIntegrated(st, line) ==
    LET md == st.module_data
    IN  IF line.integrated
        THEN IF st.current_ebur128_module_index = None
                \/ Val(st.current_ebur128_module_index) \notin DOMAIN md
             THEN [st EXCEPT !.exc = Some("KeyError")]
             ELSE [st EXCEPT
                     !.module_data[Val(st.current_ebur128_module_index)].loudness
                         = Some(line.value),
                     !.in_ebur128_summary_flag = FALSE]
        ELSE IF line.tag = "ebur128" /\ line.summary
        THEN [st EXCEPT !.current_ebur128_module_index = Some(line.index),
                        !.in_ebur128_summary_flag = TRUE]
        ELSE st

\* the body of the loop of lines 359-385 on one line
ParseLine(st, line) ==
    LET md == st.module_data
    IN  IF ~st.in_ebur128_summary_flag /\ line.tag = "none" THEN st
        ELSE IF st.in_ebur128_summary_flag /\ line.integrated
        THEN IF Val(st.current_ebur128_module_index) \notin DOMAIN md
             THEN [st EXCEPT !.exc = Some("KeyError")]
             ELSE [st EXCEPT
                     !.module_data[Val(st.current_ebur128_module_index)].loudness
                         = Some(line.value),
                     !.in_ebur128_summary_flag = FALSE,
                     !.current_ebur128_module_index = None]
        ELSE IF line.tag = "ebur128" /\ line.summary
        THEN [st EXCEPT !.current_ebur128_module_index = Some(line.index),
                        !.in_ebur128_summary_flag = TRUE]
        ELSE IF line.tag = "volumedetect" /\ line.mean_volume
        THEN IF line.index \notin DOMAIN md
             THEN [st EXCEPT !.exc = Some("KeyError")]
             ELSE [st EXCEPT !.module_data[line.index].volume_mean =
                                 Some(line.value)]
        ELSE IF line.tag = "volumedetect" /\ line.max_volume
        THEN IF line.index \notin DOMAIN md
             THEN [st EXCEPT !.exc = Some("KeyError")]
             ELSE [st EXCEPT !.module_data[line.index].volume_max =
                                 Some(line.value)]
        ELSE st

\* lines 387-395: a later module of the same channel overwrites an earlier
LastModule(module_data, name, channel) ==
    CHOOSE k \in DOMAIN module_data :
        /\ module_data[k].name = name
        /\ module_data[k].channel = channel
        /\ \A j \in DOMAIN module_data :
               (module_data[j].name = name /\ module_data[j].channel = channel)
                   => j <= k
ChannelsOf(module_data, name) ==
    { module_data[k].channel :
        k \in { j \in DOMAIN module_data : module_data[j].name = name } }
VolumeMap(module_data) ==
    [ c \in ChannelsOf(module_data, "volumedetect") |->
        LET v == module_data[LastModule(module_data, "volumedetect", c)]
        IN  [volume_max |-> v.volume_max, volume_mean |-> v.volume_mean] ]
LoudnessMap(module_data) ==
    [ c \in ChannelsOf(module_data, "ebur128") |->
        module_data[LastModule(module_data, "ebur128", c)].loudness ]

----------------------------------------------------------------------------
(* The anomaly flags and output_options (lines 94-172), on the best track  *)
(* and the two maps                                                        *)

\* self.volume[a]['volume_mean'] + 10 <= self.volume[b]['volume_mean']
MeanPlus10Leq(vol, a, b) ==
    IF a \notin DOMAIN vol THEN Exc("KeyError")
    ELSE IF vol[a].volume_mean = None THEN Exc("TypeError")
    ELSE IF b \notin DOMAIN vol THEN Exc("KeyError")
    ELSE IF vol[b].volume_mean = None THEN Exc("TypeError")
    ELSE Ok(Val(vol[a].volume_mean) + 10 * 100
                <= Val(vol[b].volume_mean))

\* lines 139-148
is_ll(bt, vol) ==
    IF bt.channels # 2 THEN Ok(FALSE) ELSE MeanPlus10Leq(vol, 1, 0)

\* lines 150-159
is_rr(bt, vol) ==
    IF bt.channels # 2 THEN Ok(FALSE) ELSE MeanPlus10Leq(vol, 0, 1)

\* an is_inverted that does not look at is_ll and is_rr
is_inverted_unguarded(bt, vol) ==
    IF bt.channels # 2 THEN Ok(FALSE)
    ELSE MeanPlus10Leq(vol, CHANNEL_MERGED, CHANNEL_ORI)

\* lines 130-133, given what is_ll and is_rr returned or raised
InvertedGiven(ll, rr, vol) ==
    IF ll.exc # None THEN ll
    ELSE IF ll.val THEN Ok(FALSE)
    ELSE IF rr.exc # None THEN rr
    ELSE IF rr.val THEN Ok(FALSE)
    ELSE MeanPlus10Leq(vol, CHANNEL_MERGED, CHANNEL_ORI)

\* lines 126-137
is_inverted(bt, vol) ==
    IF bt.channels # 2 THEN Ok(FALSE)
    ELSE InvertedGiven(is_ll(bt, vol), is_rr(bt, vol), vol)

\* lines 161-165
is_too_loud(vol) ==
    IF CHANNEL_ORI \notin DOMAIN vol THEN Exc("KeyError")
    ELSE Ok(vol[CHANNEL_ORI].volume_max = Some(0))

\* lines 168-172
is_too_low(vol) ==
    IF CHANNEL_ORI \notin DOMAIN vol THEN Exc("KeyError")
    ELSE IF vol[CHANNEL_ORI].volume_mean = None THEN Exc("TypeError")
    ELSE Ok(Val(vol[CHANNEL_ORI].volume_mean) <= -30 * 100)

\* a channel choice that keeps the original whatever the flags say
channel_selected_original(bt, vol) == Ok(CHANNEL_ORI)

\* lines 99-111, given what the three flags returned or raised
ChannelGiven(inverted, ll, rr, channels) ==
    IF inverted.exc # None THEN inverted
    ELSE IF inverted.val THEN Ok(0)
    ELSE IF ll.exc # None THEN ll
    ELSE IF ll.val \/ channels # 2 THEN Ok(0)
    ELSE IF rr.exc # None THEN rr
    ELSE IF rr.val THEN Ok(1)
    ELSE Ok(CHANNEL_ORI)

\* lines 99-111: channel_selected
channel_selected(bt, vol) ==
    ChannelGiven(is_inverted(bt, vol), is_ll(bt, vol), is_rr(bt, vol),
                 bt.channels)

\* the directives, lines 102-103 / 107-108 and 122-123
MapChannel(index, channel) ==
    [option |-> "-map_channel", index |-> index, channel |-> channel]
VolumeFilter(adjust_db) ==
    [option |-> "-af", volume |-> adjust_db]

\* a volume_adjust that attenuates from the upper threshold on
volume_adjust_from_threshold(loud, volume_max) ==
    IF loud = None THEN Exc("TypeError")
    ELSE IF Val(loud) >= LOUDNESS_MAX * 100
    THEN Ok(Some(LOUDNESS_TAR * 100 - Val(loud)))
    ELSE IF Val(loud) < LOUDNESS_MIN * 100
    THEN IF volume_max = None THEN Exc("TypeError")
         ELSE LET a == LOUDNESS_TAR * 100 - Val(loud)
                  b == 0 - Val(volume_max)
              IN  Ok(Some(IF b < a THEN b ELSE a))
    ELSE Ok(None)

\* a volume_adjust that boosts to the target whatever the peak
volume_adjust_unbounded(loud, volume_max) ==
    IF loud = None THEN Exc("TypeError")
    ELSE IF Val(loud) > LOUDNESS_MAX * 100
    THEN Ok(Some(LOUDNESS_TAR * 100 - Val(loud)))
    ELSE IF Val(loud) < LOUDNESS_MIN * 100
    THEN Ok(Some(LOUDNESS_TAR * 100 - Val(loud)))
    ELSE Ok(None)

\* lines 113-120: volume_adjust, None when no branch is taken
volume_adjust(loud, volume_max) ==
    IF loud = None THEN Exc("TypeError")
    ELSE IF Val(loud) > LOUDNESS_MAX * 100
    THEN Ok(Some(LOUDNESS_TAR * 100 - Val(loud)))
    ELSE IF Val(loud) < LOUDNESS_MIN * 100
    THEN IF volume_max = None THEN Exc("TypeError")
         ELSE LET a == LOUDNESS_TAR * 100 - Val(loud)
                  b == 0 - Val(volume_max)
              IN  Ok(Some(IF b < a THEN b ELSE a))
    ELSE Ok(None)

\* output_options, lines 94-124
output_options(bt, vol, loud) ==
    LET sel == channel_selected(bt, vol)
    IN  IF sel.exc # None THEN sel
        ELSE IF sel.val \notin DOMAIN loud \/ sel.val \notin DOMAIN vol
        THEN Exc("KeyError")
        ELSE LET remap == IF sel.val = CHANNEL_ORI THEN <<>>
                          ELSE << MapChannel(bt.index, sel.val),
                                  MapChannel(bt.index, sel.val) >>
                 adjust == volume_adjust(loud[sel.val],
                                         vol[sel.val].volume_max)
             IN  IF adjust.exc # None THEN adjust
                 ELSE IF adjust.val # None /\ Val(adjust.val) # 0
                 THEN Ok(remap \o << VolumeFilter(Val(adjust.val)) >>)
                 ELSE Ok(remap)

\* the loop of lines 359-385 over the lines of the log: it ends at the
\* first exception
RECURSIVE ParseOutput(_, _)
ParseOutput(st, lines) ==
    IF lines = <<>> \/ st.exc # None THEN st
    ELSE ParseOutput(ParseLine(st, Head(lines)), Tail(lines))

----------------------------------------------------------------------------
(* The properties, as the code that runs between two waits on the executor. *)
(* Each operator gives the step's effect: the object, where control goes   *)
(* next (nxt), the call site of the pass it entered (kont: "tracks" is     *)
(* line 206, "bt214" line 214, "gbt504" the self.tracks of line 504), how  *)
(* the read ended (outcome), what it returned (retval) and the number of   *)
(* passes of _get_audio_tracks it entered (np).                            *)

Done(o, retval) ==
    [ap |-> o, nxt |-> "idle", kont |-> "none", outcome |-> "returned",
     retval |-> retval, np |-> 0]
Raise(o, exc) ==
    [ap |-> o, nxt |-> "idle", kont |-> "none", outcome |-> exc,
     retval |-> None, np |-> 0]
ToPass(o, site) ==
    [ap |-> o, nxt |-> "probing", kont |-> site, outcome |-> "running",
     retval |-> None, np |-> 1]
ToExec(o) ==
    [ap |-> o, nxt |-> "analysing", kont |-> "none", outcome |-> "running",
     retval |-> None, np |-> 0]

\* a clamp that caps the file protocol too
TestedDurationCapsAll(o, duration) ==
    IF duration < o.min_len THEN o.min_len
    ELSE IF duration > o.max_len THEN o.max_len
    ELSE duration

\* _get_volume_and_loudness lines 266-271
TestedDuration(o, duration) ==
    IF duration < o.min_len THEN o.min_len
    ELSE IF o.proto # Some(s_file) /\ duration > o.max_len THEN o.max_len
    ELSE duration

\* self.best_track once the index is cached (lines 210-213)
CachedBestTrack(o) == TrackAt(Val(o.tracks), Val(o.best_track_index))

\* self.output_options once the two maps are stored
CachedOutputOptions(o) ==
    output_options(CachedBestTrack(o), Val(o.volume), Val(o.loudness))

\* the first exception, in the order of lines 535-547, of the properties
\* the result record reads from the cache, None when there is none
FirstException(results) ==
    IF \A k \in 1..Len(results) : results[k].exc = None THEN None
    ELSE results[CHOOSE k \in 1..Len(results) :
                    /\ results[k].exc # None
                    /\ \A j \in 1..(k - 1) : results[j].exc = None].exc

\* probe_and_select_from_stream lines 532-548, every field read from the cache
ResultRecord(o) ==
    LET bt == CachedBestTrack(o)
        vol == Val(o.volume)
        options == CachedOutputOptions(o)
        inverted == is_inverted(bt, vol)
        ll == is_ll(bt, vol)
        rr == is_rr(bt, vol)
        too_loud == is_too_loud(vol)
        too_low == is_too_low(vol)
        exc == FirstException(<< options, inverted, ll, rr, too_loud, too_low >>)
    IN  IF exc # None THEN Exc(Val(exc))
        ELSE Ok([ best_track |-> bt,
                  output_options |-> options.val,
                  best_url |-> IF o.ori_proto = s_file THEN s_file
                               ELSE Val(o.proto),
                  tested_duration |-> Val(o.tested_duration),
                  con_time |-> Val(o.con_time),
                  selected_protocol |-> Val(o.proto),
                  volume |-> vol,
                  loudness |-> Val(o.loudness),
                  abnormals |-> [ inverted |-> inverted.val, ll |-> ll.val,
                                  rr |-> rr.val, too_loud |-> too_loud.val,
                                  too_low |-> too_low.val ] ])

\* a property that returns the value r.val or raises r.exc
Return(o, r) ==
    IF r.exc # None THEN Raise(o, Val(r.exc)) ELSE Done(o, Some(r.val))

\* _get_volume_and_loudness from line 266, given the value bt of its first
\* self.best_track: up to the wait on the executor
VolumeAndLoudnessHead(o, bt) ==
    IF bt = None THEN Raise(o, "TypeError")
    ELSE ToExec([o EXCEPT !.tested_duration =
                              Some(TestedDuration(o, Val(bt).duration))])

\* the code that follows the first self.best_track of the read q
AfterBestTrack(o, q, bt) ==
    CASE q = "best_track" -> Done(o, bt)
      [] q \in {"volume", "loudness", "session"} -> VolumeAndLoudnessHead(o, bt)
      [] q = "output_options" ->
            IF bt = None THEN Raise(o, "TypeError")
            ELSE IF o.volume # None THEN Return(o, CachedOutputOptions(o))
            ELSE VolumeAndLoudnessHead(o, bt)

\* best_url line 224
BestUrlTail(o) ==
    IF o.proto = None THEN Raise(o, "TypeError") ELSE Done(o, o.proto)

\* the code that follows a return r of _get_best_track
AfterGetBestTrack(o, q, r) ==
    IF q = "best_url" THEN BestUrlTail(o) ELSE AfterBestTrack(o, q, r)

\* _get_best_track from line 504, given the value r of its self.tracks
GetBestTrackTail(o, q, r) ==
    IF ~Truthy(r) THEN AfterGetBestTrack(o, q, None)
    ELSE LET best_track == BestOf(Val(o.tracks))
         IN  AfterGetBestTrack(
                 [o EXCEPT !.best_track_index = Some(best_track.index)],
                 q, Some(best_track))

\* _get_best_track: its self.tracks (lines 204-206) starts a pass unless
\* _tracks is truthy; a pass over no candidate returns None at once
get_best_track(o, q) ==
    IF Truthy(o.tracks) THEN GetBestTrackTail(o, q, o.tracks)
    ELSE IF possible_protocols(o) = <<>>
         THEN [GetBestTrackTail(o, q, None) EXCEPT !.np = @ + 1,
                                                   !.kont = "gbt504"]
         ELSE ToPass(o, "gbt504")

\* best_track lines 214-216, given the return r of _get_audio_tracks
BestTrackTail(o, q, r) ==
    IF r = None THEN Raise(o, "InvalidURL") ELSE get_best_track(o, q)

\* a best_track that never looks at the cached index
best_track_uncached(o, q) ==
    IF possible_protocols(o) = <<>>
    THEN [BestTrackTail(o, q, None) EXCEPT !.np = @ + 1, !.kont = "bt214"]
    ELSE ToPass(o, "bt214")

\* best_track lines 210-216
best_track(o, q) ==
    IF /\ o.tracks # None
       /\ o.best_track_index # None
       /\ HasTrack(Val(o.tracks), Val(o.best_track_index))
    THEN AfterBestTrack(o, q,
             Some(TrackAt(Val(o.tracks), Val(o.best_track_index))))
    ELSE IF possible_protocols(o) = <<>>
         THEN [BestTrackTail(o, q, None) EXCEPT !.np = @ + 1,
                                                !.kont = "bt214"]
         ELSE ToPass(o, "bt214")

\* tracks lines 204-206
tracks(o) ==
    IF Truthy(o.tracks) THEN Done(o, o.tracks)
    ELSE IF possible_protocols(o) = <<>>
         THEN [Done(o, None) EXCEPT !.np = @ + 1, !.kont = "tracks"]
         ELSE ToPass(o, "tracks")

\* best_url lines 220-224
best_url(o, q) ==
    IF o.ori_proto = s_file THEN Done(o, Some(s_file))
    ELSE IF ~Truthy(o.proto) THEN get_best_track(o, q)
    ELSE BestUrlTail(o)

\* volume lines 228-231
volume(o, q) ==
    IF o.volume # None THEN Done(o, o.volume) ELSE best_track(o, q)

\* loudness lines 235-238
loudness(o, q) ==
    IF o.loudness # None THEN Done(o, o.loudness) ELSE best_track(o, q)

\* the code that follows the return r of _get_audio_tracks at a call site
AfterPass(o, q, site, r) ==
    CASE site = "tracks" -> Done(o, r)
      [] site = "bt214" -> BestTrackTail(o, q, r)
      [] site = "gbt504" -> GetBestTrackTail(o, q, r)

\* the code that follows the analysis output, by the read that asked for it
AfterAnalysis(o, q) ==
    CASE q = "volume" -> Done(o, o.volume)
      [] q = "loudness" -> Done(o, o.loudness)
      [] q = "output_options" -> Return(o, CachedOutputOptions(o))
      [] q = "session" -> Return(o, ResultRecord(o))

----------------------------------------------------------------------------
(* The probed source and the executor *)

\* seconds a successful probe may take (time.time() - start_time)
Elapsed == {1, 2}

\* __init__ defaults, line 43-44
DefaultTimeout == 10
DefaultMinLen == 10
DefaultMaxLen == 20

Stream(codec_type, codec_name, bit_rate, channels, duration, index) ==
    [ codec_type |-> codec_type, codec_name |-> codec_name,
      bit_rate |-> bit_rate, channels |-> channels, duration |-> duration,
      index |-> index ]

\* a source with a video stream and one stereo AAC track
PlainSource ==
    [ streams |-> << Stream("video", Some("h264"), Some(900), None, None, Some(0)),
                     Stream("audio", Some("aac"), Some(128), Some(2), None, Some(1)) >>,
      format |-> [duration |-> Some(30)] ]

\* the audio streams a source may carry: codec, bit rate and duration vary
StreamKinds ==
    [ codec_name : {Some("aac"), None}, bit_rate : {Some(100), Some(120)},
      duration : {Some(8), Some(9), Some(10)} ]

\* the source whose k-th stream is the audio stream f[k], indexed by position
SourceOf(f) ==
    [ streams |-> [k \in DOMAIN f |->
                      Stream("audio", f[k].codec_name, f[k].bit_rate, Some(2),
                             f[k].duration, Some(k - 1))],
      format |-> [duration |-> None] ]

\* sources of 1..MaxStreams audio streams
TrackSources ==
    { SourceOf(f) : f \in UNION { [1..n -> StreamKinds] : n \in 1..MaxStreams } }

\* what a probe of the source that exits with status 0 may print: the full
\* JSON document; the document short of its streams list, of its format
\* object, of its streams' index, or of every stream; text that is no JSON;
\* nothing
OutputOf(source, kind) ==
    CASE kind = "full" ->
            Json([streams |-> Some(source.streams), format |-> Some(source.format)])
      [] kind = "no_streams" ->
            Json([streams |-> None, format |-> Some(source.format)])
      [] kind = "no_format" ->
            Json([streams |-> Some(source.streams), format |-> None])
      [] kind = "no_index" ->
            Json([streams |-> Some([k \in DOMAIN source.streams |->
                                      [source.streams[k] EXCEPT !.index = None]]),
                  format |-> Some(source.format)])
      [] kind = "no_audio" ->
            Json([streams |-> Some(<<>>), format |-> Some(source.format)])
      [] kind = "garbage" -> Garbage
      [] kind = "empty" -> EmptyBytes

WellFormed == {"full", "no_audio", "empty"}
Malformed == {"garbage", "no_streams", "no_format", "no_index"}

ProbeOutputs(env) == { OutputOf(env.source, kind) : kind \in env.prints }

\* the url schemes tried
Schemes ==
    { s_file, s_rtmp, s_rtmpt, s_rtsp, s_rtspt, s_http, s_mms, s_mmsh, s_mmst,
      s_https, s_ftp, s_rtmpts, s_empty }

Input(local, scheme, repeat_times, timeout, retry_times, force_proto, env) ==
    [ local |-> local, scheme |-> scheme, repeat_times |-> repeat_times,
      timeout |-> timeout, retry_times |-> retry_times,
      min_len |-> DefaultMinLen, max_len |-> DefaultMaxLen,
      force_proto |-> force_proto, env |-> env ]

\* The environment of a session: what the url serves, the kinds of output
\* its probes may print, the seconds a probe that succeeds may take, the
\* reads the caller may make on the object and how many of them; analysis
\* names the logs the analysis may print (see AnalysisOutputs).
Env(source, prints, elapsed, queries, reads) ==
    [ source |-> source, prints |-> prints, elapsed |-> elapsed,
      queries |-> queries, reads |-> reads, analysis |-> "plain" ]

\* a source with one audio stream of the given channels entry (None when
\* the probe reports none) and duration entry, and no format duration
OneTrackSource(channels, duration) ==
    [ streams |-> << Stream("audio", Some("aac"), Some(128), channels,
                            duration, Some(0)) >>,
      format |-> [duration |-> None] ]

\* the channels entries and the duration entries tried
ChannelCounts == {None, Some(0), Some(1), Some(2), Some(3)}
Durations == {None, Some(5), Some(15), Some(30)}

\* what the analysis measured of one channel variant, in hundredths
Measure(mean, max, loud) ==
    [volume_mean |-> mean, volume_max |-> max, loudness |-> loud]

\* the channel variants a log may report on
Variants == {CHANNEL_MERGED, CHANNEL_ORI, 0, 1, 2}

\* the values tried: mean volumes 10 dB apart, loudness at and around the
\* two thresholds, peaks at and below full scale
MeanValues == {-3000, -2000, -1000}
LoudnessValues == {-1601, -1600, -1201, -1200, -1199}
MaxValues == {-300, -100, 0}

\* every variant measured alike
PlainMeasures == [c \in Variants |-> Measure(-2000, -300, -1400)]
\* the mean volumes f of the four variants of a stereo track, with a
\* loudness and a peak that tell the variants apart
FlagMeasures(f) ==
    [c \in Variants |->
        CASE c = CHANNEL_ORI -> Measure(f[c], -100, -1100)
          [] c = 0 -> Measure(f[c], -200, -1700)
          [] c = 1 -> Measure(f[c], -400, -1800)
          [] OTHER -> Measure(IF c \in DOMAIN f THEN f[c] ELSE -2000, -300, -1400)]
\* one loudness and one peak for every variant; channel 1 at mean1
GainMeasures(mean1, loud, max) ==
    [c \in Variants |-> Measure(IF c = 1 THEN mean1 ELSE -1000, max, loud)]

\* the lines ffmpeg prints for module k: volumedetect prints n_samples,
\* mean_volume and max_volume; ebur128 prints its frame lines, then
\* 'Summary:', 'Integrated loudness:', 'I: .. LUFS', 'Threshold: .. LUFS'
ModuleLines(k, module_data, m) ==
    LET c == module_data[k].channel
    IN  IF module_data[k].name = "volumedetect"
        THEN << TaggedLine("volumedetect", k),
                MeanVolumeLine(k, m[c].volume_mean),
                MaxVolumeLine(k, m[c].volume_max) >>
        ELSE << TaggedLine("ebur128", k), SummaryLine(k), PlainLine,
                IntegratedLine(m[c].loudness), PlainLine >>

RECURSIVE LogFrom(_, _, _)
LogFrom(k, module_data, m) ==
    IF \A j \in DOMAIN module_data : j < k THEN <<>>
    ELSE (IF k \in DOMAIN module_data THEN ModuleLines(k, module_data, m)
          ELSE <<>>) \o LogFrom(k + 1, module_data, m)

\* the log of an analysis of a track of that many channels that measured m
LogOf(channels, m) == LogFrom(0, ModuleData(channels), m)

\* lines of every kind the parser tells apart, for a mono track (modules
\* 0, 1, 3, 4); module 7 is not in its table
ParserLines ==
    { SummaryLine(1), SummaryLine(4), SummaryLine(7), IntegratedLine(-2300),
      MeanVolumeLine(0, -2000), MaxVolumeLine(3, -500), PlainLine,
      TaggedLine("ebur128", 1) }

\* the logs the analysis of a track of that many channels may print
AnalysisOutputs(e, channels) ==
    CASE e.analysis = "plain" -> { LogOf(channels, PlainMeasures) }
      [] e.analysis = "flags" ->
            { LogOf(channels, FlagMeasures(f)) :
                f \in [{CHANNEL_MERGED, CHANNEL_ORI, 0, 1} -> MeanValues] }
      [] e.analysis = "gain" ->
            { LogOf(channels, GainMeasures(mean1, loud, max)) :
                mean1 \in {-2500, -1000}, loud \in LoudnessValues,
                max \in MaxValues }
      [] e.analysis = "lines" ->
            UNION { [1..n -> ParserLines] : n \in 0..MaxLines }

Queries ==
    {"tracks", "best_track", "best_url", "volume", "loudness",
     "output_options", "session"}

\* Constructor arguments and environments:
\*  - the protocol race of an http url under every repeat and retry count
RaceInputs ==
    { Input(FALSE, s_http, r, Some(DefaultTimeout), t, FALSE,
            Env(PlainSource, {"full", "empty"}, Elapsed,
                {"tracks", "session"}, 1)) :
      r \in 1..MaxRepeat, t \in 1..MaxRetry }
\*  - several reads in a row, every kind of output, probes of either speed
CacheInputs ==
    { Input(FALSE, s_http, 1, Some(DefaultTimeout), 1, FALSE,
            Env(PlainSource, WellFormed \cup Malformed, Elapsed, Queries,
                MaxQueries)) }
\*  - every scheme, with and without force_proto and timeout
SchemeInputs ==
    { Input(FALSE, sch, 1, to, 1, f,
            Env(PlainSource, {"full"}, {1}, Queries, 1)) :
      sch \in Schemes, to \in {None, Some(DefaultTimeout)}, f \in BOOLEAN }
\*  - a local file under every configuration
LocalInputs ==
    { Input(TRUE, s_empty, r, to, t, f,
            Env(PlainSource, WellFormed, Elapsed, Queries, 1)) :
      r \in 1..MaxRepeat, t \in 1..MaxRetry,
      to \in {None, Some(DefaultTimeout)}, f \in BOOLEAN }
\*  - every track set
TrackInputs ==
    { Input(FALSE, s_rtmp, 1, Some(DefaultTimeout), 1, FALSE,
            Env(src, {"full"}, {1}, Queries, 1)) :
      src \in TrackSources }
\*  - a stereo track under every combination of mean volumes
FlagInputs ==
    { Input(FALSE, s_rtmp, 1, Some(DefaultTimeout), 1, FALSE,
            [Env(OneTrackSource(Some(2), Some(30)), {"full"}, {1},
                 {"output_options", "session"}, 1)
             EXCEPT !.analysis = "flags"]) }
\*  - a mono and a stereo track under every loudness and peak
GainInputs ==
    { Input(FALSE, s_rtmp, 1, Some(DefaultTimeout), 1, FALSE,
            [Env(OneTrackSource(c, Some(30)), {"full"}, {1},
                 {"output_options"}, 1)
             EXCEPT !.analysis = "gain"]) :
      c \in {Some(1), Some(2)} }
\*  - every channel count
ChannelInputs ==
    { Input(FALSE, s_rtmp, 1, Some(DefaultTimeout), 1, FALSE,
            Env(OneTrackSource(c, Some(30)), {"full"}, {1},
                {"volume", "loudness", "output_options", "session"}, 1)) :
      c \in ChannelCounts }
\*  - every short log, well formed or not
ParserInputs ==
    { Input(FALSE, s_rtmp, 1, Some(DefaultTimeout), 1, FALSE,
            [Env(OneTrackSource(Some(1), Some(30)), {"full"}, {1},
                 {"volume", "loudness"}, 1)
             EXCEPT !.analysis = "lines"]) }
\*  - every duration, for a path, a file:// url and an rtmp:// url, under
\*    several min_len and max_len
DurationInputs ==
    { [Input(l, sch, 1, Some(DefaultTimeout), 1, FALSE,
             Env(OneTrackSource(Some(1), d), {"full"}, {1}, {"volume"}, 1))
       EXCEPT !.min_len = lens[1], !.max_len = lens[2]] :
      l \in BOOLEAN, sch \in {s_file, s_rtmp}, d \in Durations,
      lens \in {<<10, 20>>, <<10, 10>>, <<3, 40>>} }
\*  - best_track read again and again
RepeatInputs ==
    { Input(FALSE, s_http, 1, Some(DefaultTimeout), 1, FALSE,
            Env(PlainSource, WellFormed, {1}, {"best_track"}, MaxQueries)) }
\*  - one read of any property of a path, an rtmp url and an http url,
\*    under every repeat and retry count, probes succeeding or failing
RetryInputs ==
    { Input(l, sch, r, Some(DefaultTimeout), t, FALSE,
            Env(PlainSource, {"full", "empty"}, {1}, Queries, 1)) :
      l \in BOOLEAN, sch \in {s_rtmp, s_http},
      r \in 1..MaxRepeat, t \in 1..MaxRetry }
Inputs ==
    RaceInputs \cup CacheInputs \cup SchemeInputs \cup LocalInputs
        \cup TrackInputs \cup FlagInputs \cup GainInputs \cup ChannelInputs
        \cup ParserInputs \cup DurationInputs \cup RepeatInputs

----------------------------------------------------------------------------
(* State *)

VARIABLES
    ap,            \* the AudioProber object (self)
    env,           \* the source, its probes, the reads the caller makes
    pc,            \* "idle", "probing", "analysing" or "returned"
    query,         \* the property being read, or "session"
    nq,            \* reads started on the object
    kont,          \* the call site of the latest pass of the latest read
    ci,            \* _get_audio_tracks: place of proto in possible_protocols
    rep,           \* the outer i of line 425
    att,           \* the inner i of line 429
    te,            \* line 428 / 442
    json_data,     \* line 423 / 454
    probing_time,  \* line 424
    streams,       \* line 406, the entries in insertion order
    n_probe,       \* check_output calls made by that pass
    pass_state,    \* that pass: "none", "running", "returned" or "raised"
    last_call,     \* the latest call of subprocess.check_output
    n_pass,        \* passes of _get_audio_tracks entered so far
    n_analysis,    \* analysis invocations made so far
    outcome,       \* how the latest read ended
    retval,        \* what the latest read returned
    output         \* line 353: the lines of the latest analysis log

vars ==
    << ap, env, pc, query, nq, kont, ci, rep, att, te, json_data,
       probing_time, streams, n_probe, pass_state, last_call, n_pass,
       n_analysis, outcome, retval, output >>

NoCall == [cmd |-> "none", proto |-> None, timeout |-> None, result |-> "none"]

\* the locals of _get_audio_tracks: as they stand, at its entry, and once it
\* has returned or raised (streams and n_probe are kept as the record of the
\* pass, the rest is gone)
Locals ==
    [ ci |-> ci, rep |-> rep, att |-> att, te |-> te, json_data |-> json_data,
      probing_time |-> probing_time, streams |-> streams, n_probe |-> n_probe ]
EntryLocals ==
    [ ci |-> 1, rep |-> 0, att |-> 0, te |-> None, json_data |-> None,
      probing_time |-> <<>>, streams |-> <<>>, n_probe |-> 0 ]
ExitLocals(l) ==
    [EntryLocals EXCEPT !.streams = l.streams, !.n_probe = l.n_probe]
SetLocals(l) ==
    /\ ci' = l.ci
    /\ rep' = l.rep
    /\ att' = l.att
    /\ te' = l.te
    /\ json_data' = l.json_data
    /\ probing_time' = l.probing_time
    /\ streams' = l.streams
    /\ n_probe' = l.n_probe

\* the state after construction from one of the given arguments
InitOf(inputs) ==
    \E in \in inputs :
        /\ ap = AudioProber(in.local, in.scheme, in.repeat_times, in.timeout,
                            in.retry_times, in.min_len, in.max_len,
                            in.force_proto)
        /\ env = in.env
        /\ pc = "idle"
        /\ query = "none"
        /\ nq = 0
        /\ kont = "none"
        /\ ci = 1
        /\ rep = 0
        /\ att = 0
        /\ te = None
        /\ json_data = None
        /\ probing_time = <<>>
        /\ streams = <<>>
        /\ n_probe = 0
        /\ pass_state = "none"
        /\ last_call = NoCall
        /\ n_pass = 0
        /\ n_analysis = 0
        /\ outcome = "none"
        /\ retval = None
        /\ output = <<>>

Init == InitOf(Inputs)

\* what a step that enters no pass leaves of the latest one
Keep(l, ps, site) == [locals |-> l, pass_state |-> ps, kont |-> site]

\* a step's effect res (see Done, Raise, ToPass, ToExec) on the state of the
\* read q
Apply(res, q, keep) ==
    \E r \in {res}, k \in {keep} :
        /\ ap' = r.ap
        /\ pc' = IF r.nxt = "idle" /\ q = "session" THEN "returned" ELSE r.nxt
        /\ outcome' = r.outcome
        /\ retval' = r.retval
        /\ n_pass' = n_pass + r.np
        /\ IF r.nxt = "probing"
           THEN SetLocals(EntryLocals) /\ pass_state' = "running"
                /\ kont' = r.kont
           ELSE IF r.np > 0
           THEN SetLocals(EntryLocals) /\ pass_state' = "returned"
                /\ kont' = r.kont
           ELSE SetLocals(k.locals) /\ pass_state' = k.pass_state
                /\ kont' = k.kont

----------------------------------------------------------------------------
(* Reads of the properties *)

Read(q, res) ==
    /\ pc = "idle"
    /\ nq < env.reads
    /\ q \in env.queries
    /\ nq' = nq + 1
    /\ query' = q
    /\ Apply(res, q, Keep(EntryLocals, "none", "none"))
    /\ UNCHANGED << env, last_call, n_analysis, output >>

Read_tracks == Read("tracks", tracks(ap))
Read_best_track == Read("best_track", best_track(ap, "best_track"))
Read_best_url == Read("best_url", best_url(ap, "best_url"))
Read_volume == Read("volume", volume(ap, "volume"))
Read_loudness == Read("loudness", loudness(ap, "loudness"))
Read_output_options == Read("output_options", best_track(ap, "output_options"))

\* probe_and_select_from_stream on a fresh object: line 531 first
probe_and_select_from_stream ==
    /\ nq = 0
    /\ Read("session", best_track(ap, "session"))

----------------------------------------------------------------------------
(* _get_audio_tracks, one call of check_output per step (lines 407-496) *)

\* the candidate being probed, line 407
proto_of_pass == possible_protocols(ap)[ci]

\* a probe that is handed no timeout
ProbeTimeoutNone(o, i) == None

\* lines 431-437: the timeout handed to check_output on attempt i
ProbeTimeout(o, i) ==
    IF o.timeout # None THEN Some((Val(o.timeout) * (2 + i)) \div 2)
    ELSE None

\* A url, by what the pass does to it: scheme is the text before '://'
\* (None for a path without one), live says whether ' live=1' is appended;
\* what follows '://', or the path, is self._url_without_proto throughout.
\* self._url:
Url(o) == [scheme |-> IF o.local THEN None ELSE Some(o.ori_proto),
           live |-> FALSE]

\* a pass that builds every url from the candidate
ProbeUrlRewritesAll(o, proto) ==
    [scheme |-> Some(proto), live |-> proto = s_rtmp]

\* lines 408-411 and 417-418: the url probed for a candidate
ProbeUrl(o, proto) ==
    IF proto = s_file THEN Url(o)
    ELSE [scheme |-> Some(proto), live |-> proto = s_rtmp]

\* lines 414-416: the input options added for the candidate
InputOptions(proto) ==
    IF proto = s_rtsp THEN << "-rtsp_transport", "tcp" >> ELSE <<>>

\* lines 420-422 and 439-440
ProbeCall(result) ==
    [cmd |-> "ffprobe", proto |-> Some(proto_of_pass),
     url |-> ProbeUrl(ap, proto_of_pass),
     input_options |-> InputOptions(proto_of_pass),
     timeout |-> ProbeTimeout(ap, att), result |-> result]

\* lines 457-496 once the repetitions of a candidate are over: its output
\* is parsed and its entry stored, then either the next candidate is
\* probed or the selection is made and the caller's code runs on
CandidateEnd(l) ==
    \E parsed \in {ParseProbe(l.json_data)} :
    \E streams2 \in {Append(l.streams,
                             StreamEntry(proto_of_pass, l.probing_time,
                                         parsed.tracks))} :
        IF parsed.exc # None
        THEN Apply(Raise(ap, Val(parsed.exc)), query,
                   Keep(ExitLocals(l), "raised", kont))
        ELSE IF ci < Len(possible_protocols(ap))
        THEN /\ SetLocals([l EXCEPT !.streams = streams2, !.ci = @ + 1,
                                    !.rep = 0, !.att = 0, !.te = None,
                                    !.json_data = None,
                                    !.probing_time = <<>>])
             /\ UNCHANGED << ap, pc, kont, outcome, retval, n_pass, pass_state >>
        ELSE \E o \in {RecordSelection(ap, streams2)},
                r \in {PassResult(ap, streams2)} :
                 Apply(AfterPass(o, query, kont, r), query,
                       Keep(ExitLocals([l EXCEPT !.streams = streams2]),
                            "returned", kont))

\* a repetition end that records the timing of a successful repetition only
RepetitionEndOmitsPenalty(l, timing, json_data2) ==
    LET l2 == [l EXCEPT !.probing_time =
                            IF timing = TIME_PUNISHMENT THEN @
                            ELSE Append(@, timing),
                        !.json_data = json_data2]
    IN  IF rep + 1 < ap.repeat_times
        THEN /\ SetLocals([l2 EXCEPT !.rep = @ + 1, !.att = 0, !.te = None])
             /\ UNCHANGED << ap, pc, kont, outcome, retval, n_pass, pass_state >>
        ELSE CandidateEnd(l2)

\* the end of one repetition (lines 445-455): its timing is appended
RepetitionEnd(l, timing, json_data2) ==
    LET l2 == [l EXCEPT !.probing_time = Append(@, timing),
                        !.json_data = json_data2]
    IN  IF rep + 1 < ap.repeat_times
        THEN /\ SetLocals([l2 EXCEPT !.rep = @ + 1, !.att = 0, !.te = None])
             /\ UNCHANGED << ap, pc, kont, outcome, retval, n_pass, pass_state >>
        ELSE CandidateEnd(l2)

\* a retry loop that makes one attempt more than retry_times
ProbeFailsOnceMore ==
    /\ pc = "probing"
    /\ UNCHANGED << env, query, nq, n_analysis, output >>
    /\ \E e \in {"CalledProcessError"} \cup
                 (IF ap.timeout # None THEN {"TimeoutExpired"} ELSE {}) :
        /\ last_call' = ProbeCall(e)
        /\ LET l == [Locals EXCEPT !.n_probe = @ + 1, !.te = Some(e)]
           IN  IF att < ap.retry_times
               THEN /\ SetLocals([l EXCEPT !.att = @ + 1])
                    /\ UNCHANGED << ap, pc, kont, outcome, retval, n_pass,
                                    pass_state >>
               ELSE RepetitionEnd(l, TIME_PUNISHMENT, json_data)

\* check_output raises CalledProcessError, or TimeoutExpired when it was
\* given a timeout (lines 438-452)
ProbeFails ==
    /\ pc = "probing"
    /\ UNCHANGED << env, query, nq, n_analysis, output >>
    /\ \E e \in {"CalledProcessError"} \cup
                 (IF ap.timeout # None THEN {"TimeoutExpired"} ELSE {}) :
        /\ last_call' = ProbeCall(e)
        /\ LET l == [Locals EXCEPT !.n_probe = @ + 1, !.te = Some(e)]
           IN  IF att + 1 < ap.retry_times
               THEN /\ SetLocals([l EXCEPT !.att = @ + 1])
                    /\ UNCHANGED << ap, pc, kont, outcome, retval, n_pass,
                                    pass_state >>
               ELSE RepetitionEnd(l, TIME_PUNISHMENT, json_data)

\* check_output returns what the probe printed (lines 439-444, 453-455)
ProbeReturns ==
    /\ pc = "probing"
    /\ last_call' = ProbeCall("returned")
    /\ UNCHANGED << env, query, nq, n_analysis, output >>
    /\ \E tmp_data \in ProbeOutputs(env), elapsed \in env.elapsed :
        RepetitionEnd([Locals EXCEPT !.n_probe = @ + 1], elapsed,
                      Some(tmp_data))

----------------------------------------------------------------------------
(* _get_volume_and_loudness, the analysis invocation (lines 341-397) *)

\* lines 341-344: max(self._timeout, self._con_time * 2) as a fraction
AnalysisTimeout(o) ==
    IF o.timeout = None THEN None
    ELSE LET twice == [num |-> 2 * Val(o.con_time).num,
                       den |-> Val(o.con_time).den]
         IN  IF FracLess(FracOfInt(Val(o.timeout)), twice) THEN Some(twice)
             ELSE Some(FracOfInt(Val(o.timeout)))

\* lines 353-355
AnalysisCall(result) ==
    [cmd |-> "ffmpeg", proto |-> ap.proto, timeout |-> AnalysisTimeout(ap),
     result |-> result]

\* check_output raises: nothing catches it, nothing is stored
AnalysisFails ==
    /\ pc = "analysing"
    /\ n_analysis' = n_analysis + 1
    /\ UNCHANGED << env, query, nq, output >>
    /\ \E e \in {"CalledProcessError"} \cup
                 (IF ap.timeout # None THEN {"TimeoutExpired"} ELSE {}) :
        /\ last_call' = AnalysisCall(e)
        /\ Apply(Raise(ap, e), query, Keep(Locals, pass_state, kont))

\* lines 357-397 on the lines of the log: the parser's exception, or the
\* object with the two maps stored
VolumeAndLoudnessTail(o, lines) ==
    LET bt == CachedBestTrack(o)
        st == ParseOutput(ParserStart(ModuleData(bt.channels)), lines)
    IN  IF st.exc # None THEN Exc(Val(st.exc))
        ELSE Ok([o EXCEPT !.volume = Some(VolumeMap(st.module_data)),
                          !.loudness = Some(LoudnessMap(st.module_data))])

\* check_output returns the log: it is parsed and stored (lines 357-397),
\* and the code of the read runs on
AnalysisReturns ==
    /\ pc = "analysing"
    /\ last_call' = AnalysisCall("returned")
    /\ n_analysis' = n_analysis + 1
    /\ UNCHANGED << env, query, nq >>
    /\ \E lines \in AnalysisOutputs(env, CachedBestTrack(ap).channels) :
        /\ output' = lines
        /\ LET r == VolumeAndLoudnessTail(ap, lines)
           IN  IF r.exc # None
               THEN Apply(Raise(ap, Val(r.exc)), query,
                          Keep(Locals, pass_state, kont))
               ELSE Apply(AfterAnalysis(r.val, query), query,
                          Keep(Locals, pass_state, kont))

----------------------------------------------------------------------------

Next ==
    \/ Read_tracks
    \/ Read_best_track
    \/ Read_best_url
    \/ Read_volume
    \/ Read_loudness
    \/ Read_output_options
    \/ probe_and_select_from_stream
    \/ ProbeFails
    \/ ProbeReturns
    \/ AnalysisFails
    \/ AnalysisReturns

Spec == Init /\ [][Next]_vars

\* check_output returns, with output or with CalledProcessError or
\* TimeoutExpired, whenever it is called: a pass that waits on the probe
\* executor is resumed. The sessions looked at are those of RetryInputs.
RetryInit == InitOf(RetryInputs)
RetrySpec ==
    RetryInit /\ [][Next]_vars /\ WF_vars(ProbeFails \/ ProbeReturns)

----------------------------------------------------------------------------
(* Properties *)

\* the places in streams of the candidates whose track map is present
PresentCandidates == { k \in 1..Len(streams) : streams[k].tracks # None }

\* C1: when a pass of _get_audio_tracks has returned and some candidate's
\* track map is present, the object holds the protocol, response time and
\* track map of one enumerated candidate k whose track map is present, no
\* present candidate has a smaller average_response_time than k, and every
\* present candidate enumerated before k has a strictly larger one.
C1_MinResponseFirstWins ==
    (pass_state = "returned" /\ PresentCandidates # {}) =>
        \E k \in PresentCandidates :
            /\ streams[k].proto = possible_protocols(ap)[k]
            /\ ap.proto = Some(streams[k].proto)
            /\ ap.con_time = Some(streams[k].con_time)
            /\ ap.tracks = streams[k].tracks
            /\ ap.tracks # None
            /\ \A j \in PresentCandidates :
                   streams[k].con_time.num * streams[j].con_time.den
                       <= streams[j].con_time.num * streams[k].con_time.den
            /\ \A j \in PresentCandidates :
                   j < k =>
                       streams[k].con_time.num * streams[j].con_time.den
                           < streams[j].con_time.num * streams[k].con_time.den

\* C1 witness: two present candidates tie on the average and the first
\* enumerated one is the selected protocol
C1_Witness ==
    /\ pass_state = "returned"
    /\ PresentCandidates = {1, 2}
    /\ streams[1].con_time = streams[2].con_time
    /\ ap.proto = Some(streams[1].proto)
    /\ streams[1].proto # streams[2].proto

\* the track set's longest duration
Longest(ts) ==
    CHOOSE d \in { ts[k].duration : k \in 1..Len(ts) } :
        \A k \in 1..Len(ts) : ts[k].duration <= d

\* C2: once _get_best_track has scored a non-empty track set, every track
\* whose duration is strictly less than the longest duration minus 1 has
\* the score -1 (-10 in tenths).
C2_ShortTrackScoresMinusOne ==
    (ap.best_track_index # None /\ Truthy(ap.tracks)) =>
        LET ts == Val(ap.tracks)
        IN  \A k \in 1..Len(ts) :
                ts[k].duration < Longest(ts) - 1 =>
                    value(ts[k], LongestDuration(ts, -1)) = -10

\* the score the specification gives a track, in tenths: -1 when the track
\* is 1.0 second or more shorter than the longest, else bit_rate times 1.2
\* for aac and vorbis and times 1.0 for any other codec
ClaimedScore(t, ts) ==
    IF Longest(ts) - t.duration >= 1 THEN -10
    ELSE IF t.codec \in {"aac", "vorbis"} THEN t.bit_rate * 12
    ELSE t.bit_rate * 10

\* C3: a read of best_track that returns a track of a non-empty track set
\* returns a track of maximum score, the first such in the track map's
\* order, where a track within 1.0 second of the longest scores
\* bit_rate x codec_weight; and its index is the cached best-track index.
C3_BestTrackIsFirstOfMaxScore ==
    (query = "best_track" /\ outcome = "returned" /\ retval # None) =>
        LET ts == Val(ap.tracks)
        IN  \E k \in 1..Len(ts) :
                /\ retval = Some(ts[k])
                /\ ap.best_track_index = Some(ts[k].index)
                /\ \A j \in 1..Len(ts) :
                       ClaimedScore(ts[j], ts) <= ClaimedScore(ts[k], ts)
                /\ \A j \in 1..(k - 1) :
                       ClaimedScore(ts[j], ts) < ClaimedScore(ts[k], ts)

\* C4: within one session the selection pass is executed at most once:
\* once a pass has stored a selected protocol and a track set with tracks,
\* no later step enters _get_audio_tracks again, and the cached protocol,
\* response time and track set stay as they are.
C4_SelectionPassAtMostOnce ==
    [][(ap.proto # None /\ Truthy(ap.tracks)) =>
          /\ n_pass' = n_pass
          /\ ap'.proto = ap.proto
          /\ ap'.con_time = ap.con_time
          /\ ap'.tracks = ap.tracks]_vars

\* C5: when a pass of a full session run (probe_and_select_from_stream) has
\* returned with no candidate's track map present (every candidate failed,
\* or there was no candidate), the session has ended with InvalidURL and
\* without a result record, and no selected protocol, track set or
\* best-track index is recorded.
C5_NoPresentCandidateRaisesInvalidURL ==
    (query = "session" /\ pass_state = "returned" /\ PresentCandidates = {}) =>
        /\ outcome = "InvalidURL"
        /\ retval = None
        /\ ap.proto = None
        /\ ap.tracks = None
        /\ ap.best_track_index = None

\* the candidates all of whose repetitions ended in the penalty, i.e. whose
\* every attempt ended in a timeout or a non-zero exit
FailedCandidates ==
    { k \in 1..Len(streams) :
        streams[k].con_time.num = 100 * streams[k].con_time.den }

\* C6, in every state: a pass that has returned has probed every candidate;
\* a candidate whose every attempt failed has an absent track map and is
\* not the selected one; and when some candidate's track map is present,
\* a candidate with a present track map is selected and the pass has not
\* ended in InvalidURL.
C6_FailuresStayLocal ==
    /\ pass_state = "returned" =>
           Len(streams) = Len(possible_protocols(ap))
    /\ \A k \in FailedCandidates :
           /\ streams[k].tracks = None
           /\ pass_state = "returned" =>
                  ap.con_time # Some(streams[k].con_time)
    /\ (pass_state = "returned" /\ PresentCandidates # {}) =>
           /\ \E k \in PresentCandidates \ FailedCandidates :
                  ap.proto = Some(streams[k].proto)
           /\ outcome # "InvalidURL"

\* C6, in every step: a probe that ends in a timeout or a non-zero exit on
\* a candidate with no output so far never makes the pass raise.
C6_FailureNeverRaises ==
    [][(pc = "probing" /\ json_data = None
          /\ last_call'.result \in {"CalledProcessError", "TimeoutExpired"})
       => pass_state' # "raised"]_vars

\* C6: probe failures are local to their candidate.
C6_ProbeFailuresAreLocal == []C6_FailuresStayLocal /\ C6_FailureNeverRaises

\* C6 witness: http has a track map, mmsh ended every attempt in a timeout
\* or a non-zero exit, the last one a timeout, and http is selected
C6_Witness ==
    /\ pass_state = "returned"
    /\ Len(streams) = 2
    /\ streams[1].proto = s_http
    /\ streams[2].proto = s_mmsh
    /\ PresentCandidates = {1}
    /\ FailedCandidates = {2}
    /\ last_call.result = "TimeoutExpired"
    /\ ap.proto = Some(s_http)
    /\ ap.retry_times > 1

\* C7: probe output that is malformed (no JSON, or JSON short of its
\* streams list, its format object or a stream's index) never aborts the
\* pass: no pass ends by raising.
C7_MalformedOutputNeverAborts == pass_state # "raised"

\* C8, in every state: every candidate's entry holds an average over
\* exactly repeat_times timings, and while a candidate is probed there is
\* one timing per finished repetition, each the penalty or a measured time.
C8_OneTimingPerRepetition ==
    /\ \A k \in 1..Len(streams) : streams[k].con_time.den = ap.repeat_times
    /\ pc = "probing" =>
           /\ Len(probing_time) = rep
           /\ \A k \in 1..Len(probing_time) :
                  probing_time[k] \in env.elapsed \cup {100}

\* C8, in every step of a pass that ends a repetition without raising: the
\* repetition's timing is recorded, exactly 100 when its last attempt (and
\* so each of its attempts) failed; and the entry of a candidate whose
\* repetitions are over holds the arithmetic mean of its timings.
C8_PenaltyRecorded ==
    [][(/\ pc = "probing"
        /\ pass_state' # "raised"
        /\ n_pass' = n_pass
        /\ \/ last_call'.result = "returned"
           \/ att + 1 = ap.retry_times)
       => \E timing \in env.elapsed \cup {100} :
             /\ last_call'.result # "returned" => timing = 100
             /\ last_call'.result = "returned" => timing # 100
             /\ IF pass_state' = "running" /\ ci' = ci
                THEN probing_time' = Append(probing_time, timing)
                ELSE /\ Len(streams') = Len(streams) + 1
                     /\ streams'[Len(streams')].con_time =
                            [num |-> Sum(probing_time) + timing,
                             den |-> Len(probing_time) + 1]]_vars

\* C8: a repetition whose attempts all fail records the penalty 100, each
\* candidate ends with repeat_times timings, the average is their mean.
C8_PenaltyIsAveragedIn == []C8_OneTimingPerRepetition /\ C8_PenaltyRecorded

\* C8 witness: a candidate probed with two repetitions of two attempts, one
\* repetition measured and one penalised, averages (1 + 100) / 2
C8_Witness ==
    /\ pass_state = "returned"
    /\ ap.repeat_times = 2
    /\ ap.retry_times = 2
    /\ \E k \in 1..Len(streams) :
           streams[k].con_time = [num |-> 101, den |-> 2]

TableOf(scheme) ==
    CASE scheme = s_file -> <<s_file>>
      [] scheme \in {s_rtmp, s_rtmpt} -> <<s_rtmp>>
      [] scheme = s_http -> <<s_http, s_mmsh>>
      [] scheme \in {s_mms, s_mmsh, s_mmst, s_rtsp, s_rtspt} -> <<s_rtsp, s_mmsh>>
      [] OTHER -> <<>>

\* the scheme once rtspt is rewritten to rtsp and rtmpt to rtmp
NormalizedOf(scheme) ==
    CASE scheme = s_rtspt -> s_rtsp
      [] scheme = s_rtmpt -> s_rtmp
      [] OTHER -> scheme

\* C10: possible_protocols gives the rule table's list for the scheme, or
\* the one-element list of the normalized scheme when force_proto is set,
\* supported or not; and the candidates a pass probes are that list in
\* that order.
C10_RuleTable ==
    LET expected == IF ap.force_proto THEN <<NormalizedOf(ap.ori_proto)>>
                    ELSE TableOf(ap.ori_proto)
    IN  /\ possible_protocols(ap) = expected
        /\ pass_state = "returned" =>
               /\ Len(streams) = Len(expected)
               /\ \A k \in 1..Len(streams) : streams[k].proto = expected[k]

\* the best track and the two maps are stored
Measured ==
    /\ ap.volume # None
    /\ ap.loudness # None
    /\ ap.tracks # None
    /\ ap.best_track_index # None
    /\ HasTrack(Val(ap.tracks), Val(ap.best_track_index))

\* every mean volume the flags of a stereo track read is measured
MeansMeasured ==
    \A c \in {CHANNEL_MERGED, CHANNEL_ORI, 0, 1} :
        c \in DOMAIN Val(ap.volume) /\ Val(ap.volume)[c].volume_mean # None

\* C11: for the stored best track and mean volumes, is_ll and is_rr never
\* both hold, is_inverted is false whenever one of them holds, so at most
\* one of the three holds; and all three are false when the track's
\* channel count is not 2.
C11_StereoFlagsExclusive ==
    Measured =>
        LET bt == CachedBestTrack(ap)
            ll == is_ll(bt, Val(ap.volume))
            rr == is_rr(bt, Val(ap.volume))
            inverted == is_inverted(bt, Val(ap.volume))
        IN  /\ bt.channels # 2 =>
                   ll = Ok(FALSE) /\ rr = Ok(FALSE) /\ inverted = Ok(FALSE)
            /\ (bt.channels = 2 /\ MeansMeasured) =>
                   /\ ll.exc = None /\ rr.exc = None /\ inverted.exc = None
                   /\ ~(ll.val /\ rr.val)
                   /\ (ll.val \/ rr.val) => ~inverted.val
                   /\ Cardinality({ x \in {"ll", "rr", "inverted"} :
                          \/ x = "ll" /\ ll.val
                          \/ x = "rr" /\ rr.val
                          \/ x = "inverted" /\ inverted.val }) <= 1

\* C11 witness: a stereo track whose channel 1 is 10 dB below channel 0 and
\* whose merged mean is 10 dB or more below the original mean: left_only
\* holds and inverted does not
C11_Witness ==
    /\ Measured
    /\ CachedBestTrack(ap).channels = 2
    /\ MeansMeasured
    /\ Val(Val(ap.volume)[1].volume_mean) + 1000
           = Val(Val(ap.volume)[0].volume_mean)
    /\ Val(Val(ap.volume)[CHANNEL_MERGED].volume_mean) + 1000
           <= Val(Val(ap.volume)[CHANNEL_ORI].volume_mean)
    /\ is_ll(CachedBestTrack(ap), Val(ap.volume)).val
    /\ ~is_inverted(CachedBestTrack(ap), Val(ap.volume)).val

\* a read of output_options has returned its list of directives
OptionsReturned ==
    /\ query = "output_options"
    /\ outcome = "returned"
    /\ retval # None
    /\ Measured

\* the channel the returned directives map both output channels from, the
\* original when there is no remap directive
RemapOf(options) ==
    IF Len(options) >= 2 /\ options[1].option = "-map_channel"
       /\ options[2] = options[1]
    THEN options[1].channel
    ELSE CHANNEL_ORI

\* the gain of the returned directives, 0 when there is no gain directive
GainOf(options) ==
    IF options # <<>> /\ options[Len(options)].option = "-af"
    THEN options[Len(options)].volume
    ELSE 0

\* the gain rule in hundredths: -14 - loudness above -12, the smaller of
\* -14 - loudness and -volume_max below -16, none in between
ClaimedGain(loud, volume_max) ==
    IF loud > -1200 THEN -1400 - loud
    ELSE IF loud < -1600
    THEN (IF -1400 - loud < 0 - volume_max THEN -1400 - loud
          ELSE 0 - volume_max)
    ELSE 0

\* the directives are: a remap directive pair or none, then a gain
\* directive or none
WellOrdered(options) ==
    \/ options = <<>>
    \/ Len(options) = 1 /\ options[1].option = "-af"
    \/ Len(options) = 2 /\ options[1].option = "-map_channel"
          /\ options[2] = options[1]
    \/ Len(options) = 3 /\ options[1].option = "-map_channel"
          /\ options[2] = options[1] /\ options[3].option = "-af"

SelectedLoudness == Val(Val(ap.loudness)[RemapOf(Val(retval))])
SelectedVolumeMax == Val(Val(ap.volume)[RemapOf(Val(retval))].volume_max)
NoGainDirective(options) ==
    \A k \in 1..Len(options) : options[k].option # "-af"
HasGainDirective(options, gain) ==
    /\ options # <<>>
    /\ options[Len(options)] = VolumeFilter(gain)
    /\ \A k \in 1..(Len(options) - 1) : options[k].option # "-af"

\* C13 as stated: loudness -12 gives no gain directive, loudness -12.01 a
\* gain directive of -14 - loudness (an attenuation), loudness -16.01 a
\* boost of at most -volume_max.
C13_BoundariesAsStated ==
    OptionsReturned =>
        LET options == Val(retval)
        IN  /\ SelectedLoudness = -1200 => NoGainDirective(options)
            /\ SelectedLoudness = -1201 =>
                   HasGainDirective(options, -1400 - SelectedLoudness)
            /\ SelectedLoudness = -1601 =>
                   /\ GainOf(options) >= 0
                   /\ GainOf(options) <= 0 - SelectedVolumeMax

\* C13, amended: loudness -12 and loudness -12.01 give no gain directive;
\* loudness -11.99 gives a gain directive of -14 - loudness = -2.01 (an
\* attenuation); loudness -16.01 gives a boost of min(2.01, -volume_max),
\* at most -volume_max, with no directive when that boost is 0.
C13_GainBoundaries ==
    OptionsReturned =>
        LET options == Val(retval)
            boost == IF 201 < 0 - SelectedVolumeMax THEN 201
                     ELSE 0 - SelectedVolumeMax
        IN  /\ SelectedLoudness = -1200 => NoGainDirective(options)
            /\ SelectedLoudness = -1201 => NoGainDirective(options)
            /\ SelectedLoudness = -1199 => HasGainDirective(options, -201)
            /\ SelectedLoudness = -1601 =>
                   /\ GainOf(options) = boost
                   /\ GainOf(options) <= 0 - SelectedVolumeMax
                   /\ boost # 0 => HasGainDirective(options, boost)
                   /\ boost = 0 => NoGainDirective(options)

\* C13 witness: a selected variant at -11.99 LUFS is attenuated by 2.01 dB
C13_Witness ==
    /\ OptionsReturned
    /\ SelectedLoudness = -1199
    /\ HasGainDirective(Val(retval), -201)

\* C14: for every loudness and every volume_max <= 0 of the selected
\* variant, the gain of the returned directives is -14 - loudness when
\* loudness > -12, the smaller of -14 - loudness and -volume_max when
\* loudness < -16, so that volume_max + gain is at most 0, and there is no
\* gain directive when -16 <= loudness <= -12; a gain directive is the last
\* directive, after the channel-remap directives.
C14_GainRule ==
    (OptionsReturned /\ SelectedVolumeMax <= 0) =>
        LET options == Val(retval)
            l == SelectedLoudness
            gain == GainOf(options)
        IN  /\ l > -1200 => HasGainDirective(options, -1400 - l)
            /\ l < -1600 =>
                   /\ gain = (IF -1400 - l < 0 - SelectedVolumeMax
                              THEN -1400 - l ELSE 0 - SelectedVolumeMax)
                   /\ gain >= 0
                   /\ SelectedVolumeMax + gain <= 0
                   /\ gain # 0 => HasGainDirective(options, gain)
            /\ (-1600 <= l /\ l <= -1200) => NoGainDirective(options)
            /\ \A j, k \in 1..Len(options) :
                   (options[j].option = "-map_channel"
                        /\ options[k].option = "-af") => j < k

\* C14 witness: channel 0 of a stereo track is selected, at -17 LUFS with a
\* peak of -2 dB: the boost is 2 dB, not 3, and follows the remap pair
C14_Witness ==
    /\ OptionsReturned
    /\ RemapOf(Val(retval)) = 0
    /\ SelectedLoudness = -1700
    /\ SelectedVolumeMax = -200
    /\ Len(Val(retval)) = 3
    /\ Val(retval)[3] = VolumeFilter(200)

\* the channel variants a channel count implies, and the two stages
ImpliedVariants(channels) ==
    {CHANNEL_ORI} \cup 0..(channels - 1)
        \cup (IF channels = 2 THEN {CHANNEL_MERGED} ELSE {})
Stages == {"volumedetect", "ebur128"}

\* the module-index table of a channel count gives every (variant, stage)
\* pair exactly one index and holds nothing else; the stored maps have the
\* implied variants as their keys
TableAndMapsRecoverVariants ==
    LET channels == CachedBestTrack(ap).channels
        table == ModuleData(channels)
    IN  /\ \A c \in ImpliedVariants(channels), stage \in Stages :
               Cardinality({ k \in DOMAIN table :
                   table[k].channel = c /\ table[k].name = stage }) = 1
        /\ \A k \in DOMAIN table :
               table[k].channel \in ImpliedVariants(channels)
                   /\ table[k].name \in Stages
        /\ \A j, k \in DOMAIN table :
               (table[j].channel = table[k].channel
                    /\ table[j].name = table[k].name) => j = k
        /\ DOMAIN Val(ap.volume) = ImpliedVariants(channels)
        /\ DOMAIN Val(ap.loudness) = ImpliedVariants(channels)

\* C15 as stated: for every channel count of the best track, the table maps
\* each (variant, stage) pair to exactly one module index, no two pairs
\* share an index, and the volume map and the loudness map each have the
\* key set {Original} \cup {0..channels-1} \cup ({Merged} if channels = 2),
\* which is 1 + channels (+1 if channels = 2) keys.
C15_KeyCountAsStated ==
    Measured =>
        LET channels == CachedBestTrack(ap).channels
            count == 1 + channels + (IF channels = 2 THEN 1 ELSE 0)
        IN  /\ TableAndMapsRecoverVariants
            /\ Cardinality(DOMAIN Val(ap.volume)) = count
            /\ Cardinality(DOMAIN Val(ap.loudness)) = count

\* C15, amended: the same table and key-set statement, with the number of
\* keys 1 + max(channels, 0) (+1 if channels = 2): a track without a
\* channel count (-1) has the single key Original.
C15_ModuleIndexRoundTrip ==
    Measured =>
        LET channels == CachedBestTrack(ap).channels
            count == 1 + (IF channels > 0 THEN channels ELSE 0)
                       + (IF channels = 2 THEN 1 ELSE 0)
        IN  /\ TableAndMapsRecoverVariants
            /\ Cardinality(DOMAIN Val(ap.volume)) = count
            /\ Cardinality(DOMAIN Val(ap.loudness)) = count

\* C15 witness: the maps of a stereo track hold Original, 0, 1 and Merged,
\* each with the values its own modules reported
C15_Witness ==
    /\ Measured
    /\ CachedBestTrack(ap).channels = 2
    /\ DOMAIN Val(ap.volume) = {CHANNEL_ORI, 0, 1, CHANNEL_MERGED}
    /\ Val(ap.loudness)[0] = Some(-1700)
    /\ Val(ap.loudness)[1] = Some(-1800)
    /\ Val(ap.loudness)[CHANNEL_MERGED] = Some(-1400)
    /\ Val(ap.loudness)[CHANNEL_ORI] = Some(-1100)

\* the analysis has fixed its tested duration
DurationTested ==
    /\ ap.tested_duration # None
    /\ ap.tracks # None
    /\ ap.best_track_index # None
    /\ HasTrack(Val(ap.tracks), Val(ap.best_track_index))
    /\ ap.min_len <= ap.max_len

\* C16 as stated: the tested duration is the best track's duration raised
\* to min_len when shorter and, for non-local sources only, capped at
\* max_len when longer; it is at least min_len, at most max_len for a
\* non-local source, and the duration itself for a local file that is not
\* shorter than min_len.
C16_CappedUnlessLocal ==
    DurationTested =>
        LET d == CachedBestTrack(ap).duration
            td == Val(ap.tested_duration)
        IN  /\ td = (IF d < ap.min_len THEN ap.min_len
                     ELSE IF ~ap.local /\ d > ap.max_len THEN ap.max_len
                     ELSE d)
            /\ td >= ap.min_len
            /\ ~ap.local => td <= ap.max_len
            /\ (ap.local /\ d >= ap.min_len) => td = d

\* C16, amended: the cap applies exactly when the selected protocol is not
\* file; the tested duration is at least min_len, at most max_len when the
\* protocol is not file, and the duration itself, however long, for a
\* local path and for a file:// url.
C16_CappedUnlessFileProtocol ==
    DurationTested =>
        LET d == CachedBestTrack(ap).duration
            td == Val(ap.tested_duration)
            is_file == ap.proto = Some(s_file)
        IN  /\ td = (IF d < ap.min_len THEN ap.min_len
                     ELSE IF ~is_file /\ d > ap.max_len THEN ap.max_len
                     ELSE d)
            /\ td >= ap.min_len
            /\ ~is_file => td <= ap.max_len
            /\ ap.local => is_file
            /\ (is_file /\ d >= ap.min_len) => td = d

\* C16 witness: a local file of 5 s with min_len 10 is tested for 10 s
C16_Witness ==
    /\ DurationTested
    /\ ap.local
    /\ CachedBestTrack(ap).duration = 5
    /\ ap.min_len = 10
    /\ ap.tested_duration = Some(10)

\* the test of lines 210-212: a best track is cached
BestTrackCached ==
    /\ ap.tracks # None
    /\ ap.best_track_index # None
    /\ HasTrack(Val(ap.tracks), Val(ap.best_track_index))

\* a read of best_track has returned a track
BestTrackReturned ==
    /\ query = "best_track"
    /\ pc = "idle"
    /\ outcome = "returned"
    /\ retval # None

\* C17: a track that a best_track query returns is the cached best track;
\* from then on no step of the session changes the selected protocol, the
\* response time, the track set or the best-track index, and every later
\* best_track query ends in the step that starts it, returning that same
\* track without a pass, an analysis or any call of the executor.
C17_BestTrackIdempotent ==
    /\ [](BestTrackReturned =>
             BestTrackCached /\ retval = Some(CachedBestTrack(ap)))
    /\ [][BestTrackCached =>
             /\ ap'.proto = ap.proto
             /\ ap'.con_time = ap.con_time
             /\ ap'.tracks = ap.tracks
             /\ ap'.best_track_index = ap.best_track_index
             /\ (query' = "best_track" /\ nq' = nq + 1) =>
                    /\ pc' = "idle"
                    /\ outcome' = "returned"
                    /\ retval' = Some(CachedBestTrack(ap))
                    /\ last_call' = last_call
                    /\ n_pass' = n_pass
                    /\ n_analysis' = n_analysis]_vars

\* C17 witness: the caller reads nothing but best_track; the second read
\* has returned the cached track and the session has made one pass
C17_Witness ==
    /\ env.queries = {"best_track"}
    /\ nq = 2
    /\ BestTrackReturned
    /\ retval = Some(CachedBestTrack(ap))
    /\ n_pass = 1
    /\ n_analysis = 0

\* C18: a local source, whatever repeat_times, retry_times, timeout and
\* force_proto it was constructed with, has the single candidate file, one
\* repetition and one attempt; a pass on it calls the probe executor at
\* most once, exactly once by the time it ends, at the first candidate,
\* repetition and attempt, and the url of that call is the path as given.
C18_LocalProbedOnce ==
    /\ \A r \in 1..MaxRepeat, t \in 1..MaxRetry, f \in BOOLEAN,
          to \in {None, Some(DefaultTimeout)} :
           LET o == AudioProber(TRUE, s_empty, r, to, t, DefaultMinLen,
                                DefaultMaxLen, f)
           IN  /\ possible_protocols(o) = << s_file >>
               /\ o.repeat_times = 1
               /\ o.retry_times = 1
               /\ ProbeUrl(o, s_file) = [scheme |-> None, live |-> FALSE]
    /\ ap.local =>
           /\ possible_protocols(ap) = << s_file >>
           /\ n_probe <= 1
           /\ pc = "probing" => (ci = 1 /\ rep = 0 /\ att = 0 /\ n_probe = 0)
           /\ pass_state \in {"returned", "raised"} => n_probe = 1
           /\ last_call.cmd = "ffprobe" =>
                  /\ last_call.proto = Some(s_file)
                  /\ last_call.url = [scheme |-> None, live |-> FALSE]
                  /\ last_call.input_options = <<>>

\* C18 witness: the pass on a local file has returned after one call of
\* the probe executor on the path
C18_Witness ==
    /\ ap.local
    /\ pass_state = "returned"
    /\ n_pass = 1
    /\ n_probe = 1
    /\ last_call.cmd = "ffprobe"
    /\ last_call.url = [scheme |-> None, live |-> FALSE]
    /\ ap.tracks # None

\* the passes one read enters at most
MaxPasses == 3

\* the most calls of the probe executor a pass can have made when it is at
\* candidate ci, repetition rep, attempt att
CallsSoFar ==
    ((ci - 1) * ap.repeat_times + rep) * ap.retry_times + att

\* C19: while a selection pass runs, the attempts of a repetition are
\* numbered below retry_times and the calls made so far are at most those
\* of the candidates, repetitions and attempts gone through; each call is
\* one attempt; after a call that returns output the pass makes no further
\* attempt in that repetition; a pass over k candidates makes at most
\* k * repeat_times * retry_times calls; and, every call returning, every
\* pass that was entered ends (the read of a session enters at most
\* MaxPasses of them).
C19_BoundedRetry ==
    /\ [](pc = "probing" =>
             /\ ci \in 1..Len(possible_protocols(ap))
             /\ rep \in 0..(ap.repeat_times - 1)
             /\ att \in 0..(ap.retry_times - 1)
             /\ n_probe <= CallsSoFar)
    /\ [](n_probe <= Len(possible_protocols(ap)) * ap.repeat_times
                         * ap.retry_times)
    /\ [][pc = "probing" =>
             /\ last_call'.cmd = "ffprobe"
             /\ n_pass' = n_pass => n_probe' = n_probe + 1
             /\ (pc' = "probing" /\ n_pass' = n_pass /\ ci' = ci
                     /\ rep' = rep) =>
                    /\ last_call'.result # "returned"
                    /\ att' = att + 1]_vars
    /\ [](n_pass <= MaxPasses)
    /\ \A n \in 1..MaxPasses :
           (pass_state = "running" /\ n_pass = n)
               ~> ~(pass_state = "running" /\ n_pass = n)

\* C19 witness: a pass over two candidates has made every call it could,
\* two repetitions of two attempts for each, and has ended
C19_Witness ==
    /\ Len(possible_protocols(ap)) = 2
    /\ ap.repeat_times = 2
    /\ ap.retry_times = 2
    /\ n_probe = 8
    /\ pass_state \in {"returned", "raised"}

\* the module whose summary block is open after the lines read so far: the
\* tag of the latest 'Summary' line of ebur128 when no 'I: .. LUFS' line
\* followed it inside the block, None otherwise
RECURSIVE OpenBlock(_)
OpenBlock(lines) ==
    IF lines = <<>> THEN None
    ELSE LET before == OpenBlock(SubSeq(lines, 1, Len(lines) - 1))
             line == lines[Len(lines)]
         IN  IF before # None /\ line.integrated THEN None
             ELSE IF line.tag = "ebur128" /\ line.summary
             THEN Some(line.index)
             ELSE before

\* the modules whose record differs between two parser states
Changed(st, st2) ==
    { m \in DOMAIN st.module_data : st2.module_data[m] # st.module_data[m] }

\* C20: for every line of the log the analysis printed and the parser state
\* reached before it: a loudness is recorded for module m only by an
\* 'I: .. LUFS' line read while the block opened by a 'Summary' line tagged
\* m is open, it is the value of that line, and that line closes the block;
\* an 'I: .. LUFS' line read while no block is open, and any other untagged
\* line outside a block, changes nothing; a mean_volume or max_volume line
\* changes only that field of the module it is tagged with.
C20_ParserStateMachine ==
    (output # <<>> /\ BestTrackCached) =>
        \A k \in 1..Len(output) :
            LET before == SubSeq(output, 1, k - 1)
                line == output[k]
                start == ParserStart(ModuleData(CachedBestTrack(ap).channels))
                st == ParseOutput(start, before)
                st2 == ParseLine(st, line)
                open == OpenBlock(before)
            IN  st.exc = None =>
                  /\ st.in_ebur128_summary_flag <=> open # None
                  /\ st2.exc = None =>
                       \A m \in DOMAIN st.module_data :
                           (st.module_data[m].name = "ebur128"
                              /\ st2.module_data[m].loudness
                                     # st.module_data[m].loudness) =>
                               /\ line.integrated
                               /\ open = Some(m)
                               /\ st2.module_data[m].loudness = Some(line.value)
                  /\ (line.integrated /\ open # None
                          /\ Val(open) \in DOMAIN st.module_data) =>
                       /\ st2.exc = None
                       /\ st2.module_data[Val(open)].loudness = Some(line.value)
                       /\ Changed(st, st2) \subseteq {Val(open)}
                       /\ ~st2.in_ebur128_summary_flag
                       /\ OpenBlock(Append(before, line)) = None
                  /\ (open = None /\ (line.integrated \/ line.tag = "none")) =>
                       st2 = st
                  /\ (line.tag = "volumedetect" /\ ~(line.integrated /\ open # None)
                          /\ (line.mean_volume \/ line.max_volume)
                          /\ st2.exc = None) =>
                       /\ Changed(st, st2) \subseteq {line.index}
                       /\ st2.module_data[line.index] =
                              IF line.mean_volume
                              THEN [st.module_data[line.index]
                                       EXCEPT !.volume_mean = Some(line.value)]
                              ELSE [st.module_data[line.index]
                                       EXCEPT !.volume_max = Some(line.value)]
                       /\ st2.in_ebur128_summary_flag
                              = st.in_ebur128_summary_flag

\* C20 witness: the log is a stray 'I: .. LUFS' line, the summary of module
\* 4 and its 'I: .. LUFS' line; the loudness map holds that value for
\* channel 0, the channel of module 4, and none for the original
C20_Witness ==
    /\ output = << IntegratedLine(-2300), SummaryLine(4),
                   IntegratedLine(-2300) >>
    /\ ap.loudness # None
    /\ Val(ap.loudness)[0] = Some(-2300)
    /\ Val(ap.loudness)[CHANNEL_ORI] = None

\* a session on a source whose selected protocol has an audio track
SessionWithTrack ==
    /\ query = "session"
    /\ ap.tracks # None
    /\ Val(ap.tracks) # <<>>

\* the reads the result record is assembled from (lines 532-547), as the
\* properties would serve them on the object as it stands
RecordReads ==
    << best_track(ap, "best_track"), best_track(ap, "output_options"),
       best_url(ap, "best_url"), volume(ap, "volume"),
       loudness(ap, "loudness") >>

\* C21: a session whose selected protocol has at least one audio track
\* enters one selection pass and makes one analysis invocation: none before
\* the pass has returned, one once the session has ended; and on the object
\* the analysis left, best_track, output_options, best_url, volume and
\* loudness end in the read itself, entering no pass and calling no
\* executor.
C21_OnePassOneAnalysis ==
    SessionWithTrack =>
        /\ n_pass = 1
        /\ n_analysis <= 1
        /\ pc = "analysing" => n_analysis = 0
        /\ pc = "returned" => n_analysis = 1
        /\ (pc = "returned" /\ ap.volume # None) =>
               /\ ap.loudness # None
               /\ BestTrackCached
               /\ \A k \in 1..Len(RecordReads) :
                      /\ RecordReads[k].nxt = "idle"
                      /\ RecordReads[k].np = 0
                      /\ RecordReads[k].ap = ap

\* the channel variant output_options selects for the stored best track
SelectedVariant == channel_selected(CachedBestTrack(ap), Val(ap.volume))

\* C22: for every channel count of the stored best track, the channel
\* variant output_options selects for the gain decision is a key of the
\* volume map and of the loudness map the analysis built for that track,
\* so the lookup of line 113 addresses a stored measurement.
C22_SelectedVariantIsKey ==
    (Measured /\ SelectedVariant.exc = None) =>
        /\ SelectedVariant.val \in DOMAIN Val(ap.volume)
        /\ SelectedVariant.val \in DOMAIN Val(ap.loudness)

====
